---- MODULE Spec2Model ----
(***************************************************************************)
(* Model of src/src/rustup.ts: running the RLS via rustup, including the   *)
(* check that rustup and the nightly toolchain exist and the installation  *)
(* of the required components.  One bootstrap attempt (runRlsViaRustup) is *)
(* a chain of awaits; every action below is the code that runs when one    *)
(* awaited command or prompt returns, up to the next await.                *)
(***************************************************************************)
EXTENDS Integers, Sequences, FiniteSets, TLC

\* ---------------------------------------------------------------- bounds
MaxRuns == 2
MaxLines == 3
MaxUpdates == 1

\* ------------------------------------------------- text, as characters
S_nightly == <<"n", "i", "g", "h", "t", "l", "y">>
S_stable == <<"s", "t", "a", "b", "l", "e">>
S_target == <<"-", "x", "8", "6", "_", "6", "4">>
S_default == <<" ", "(", "d", "e", "f", "a", "u", "l", "t", ")">>
S_installed == <<" ", "(", "i", "n", "s", "t", "a", "l", "l", "e", "d", ")">>
S_rls == <<"r", "l", "s">>
S_rust_analysis == <<"r", "u", "s", "t", "-", "a", "n", "a", "l", "y", "s", "i", "s">>
S_rust_src == <<"r", "u", "s", "t", "-", "s", "r", "c">>
S_rust_std == <<"r", "u", "s", "t", "-", "s", "t", "d">>
S_cargo == <<"c", "a", "r", "g", "o">>
S_none == <<"n", "o", " ", "i", "n", "s", "t", "a", "l", "l", "e", "d", " ",
            "t", "o", "o", "l", "c", "h", "a", "i", "n", "s">>
NL == <<"\n">>

\* The characters at which a JavaScript regular expression ends a line.
LineTerminators == {"\n", "\r"}

\* String.prototype.indexOf: the 0-based index of the first occurrence, or -1.
IndexOf(hay, needle) ==
    LET at == {i \in 0..(Len(hay) - Len(needle)) :
                  SubSeq(hay, i + 1, i + Len(needle)) = needle}
    IN  IF at = {} THEN -1 ELSE CHOOSE i \in at : \A k \in at : i <= k

\* String.prototype.search(/^<name>.*<suffix>$/m) for a suffix among sufs:
\* the 0-based index of the first line start at which the pattern matches, or
\* -1.  With the m flag ^ matches at the start of the input and after a line
\* terminator, $ at the end of the input and before a line terminator, and .
\* matches any character that is not a line terminator.
SearchLine(stdout, name, sufs) ==
    LET n == Len(stdout)
        IsStart(i) == i = 1 \/ stdout[i - 1] \in LineTerminators
        IsEnd(j) == j = n \/ stdout[j + 1] \in LineTerminators
        MatchAt(i) ==
            \E suf \in sufs : \E j \in i..n :
                /\ IsEnd(j)
                /\ j - i + 1 >= Len(name) + Len(suf)
                /\ SubSeq(stdout, i, i + Len(name) - 1) = name
                /\ SubSeq(stdout, j - Len(suf) + 1, j) = suf
                /\ \A k \in (i + Len(name))..(j - Len(suf)) :
                       stdout[k] \notin LineTerminators
        at == {i \in 1..n : IsStart(i) /\ MatchAt(i)}
    IN  IF at = {} THEN -1
        ELSE (CHOOSE i \in at : \A k \in at : i <= k) - 1

\* ------------------------------------------------------------- commands
CmdToolchainList == <<"rustup", "toolchain", "list">>
CmdToolchainInstall == <<"rustup", "toolchain", "install", "nightly">>
CmdComponentList == <<"rustup", "component", "list", "--toolchain", "nightly">>
CmdComponentAdd(component) ==
    <<"rustup", "component", "add", component, "--toolchain", "nightly">>
CmdRunRls == <<"rustup", "run", "nightly", "rls">>

\* The components installRls adds, in the order of its three blocks.
InstallOrder_Swapped == <<"rls", "rust-src", "rust-analysis">>
InstallOrder == <<"rust-analysis", "rust-src", "rls">>
Components == {"rust-analysis", "rust-src", "rls"}

\* ------------------------------------------------------------- messages
MsgRustupNotAvailable == <<"Rustup not available. Install from https://www.rustup.rs/">>
MsgNightlyPrompt == <<"Nightly toolchain not installed. Install?">>
MsgInstallingNightly == <<"Installing nightly toolchain...">>
MsgNightlyInstalled == <<"Nightly toolchain installed successfully">>
MsgNightlyFailed == <<"Could not install nightly toolchain">>
MsgRlsPrompt == <<"RLS not installed. Install?">>
MsgRustupError == <<"Unexpected error initialising RLS - error running rustup">>
MsgInstallingRls == <<"Installing RLS components">>
MsgComponentFailed(component) == <<"Could not install RLS component (", component, ")">>
MsgRlsFailed == <<"Could not install RLS">>
MsgRlsInstalled == <<"RLS components installed successfully">>

\* What showInformationMessage(message, 'Yes') can resolve to: the item, or
\* undefined when the message is dismissed; "No" stands for any other value.
Clicks == {"Yes", "undefined", "No"}

\* ---------------------------------------------------------------- errors
NoError == [name |-> "none", message |-> <<>>]
\* new Error()
GenericError == [name |-> "Error", message |-> <<>>]
\* new Error(`installing ${component} failed`)
InstallError_Fixed(component) == [name |-> "Error", message |-> <<"installing ", "rls", " failed">>]
InstallError(component) == [name |-> "Error", message |-> <<"installing ", component, " failed">>]
\* The rejection of execChildProcess(command): opaque to this module, it may
\* or may not say which command failed.
ExecErrors(command) ==
    {[name |-> "ExecError", message |-> <<>>],
     [name |-> "ExecError", message |-> <<"Command failed:">> \o command]}

\* ------------------------------------------------------------ variables
VARIABLES
    toolchains,   \* the toolchains rustup has installed
    comps,        \* the components installed under nightly
    run,          \* the number of calls of runRlsViaRustup so far
    pc,           \* the await the current run is suspended at
    step,         \* installRls: the index in InstallOrder of the block running
    hasNightly,   \* checkForNightly's local: "unset", "true" or "false"
    hasRls,       \* checkForRls's local: "unset", "true" or "false"
    result,       \* the promise runRlsViaRustup returned
    err,          \* the error it rejected with
    log,          \* the calls the run made on its collaborators, in order
    stdout,       \* verifier check: the output of a list command
    probe,        \* verifier check: what the verifier made of stdout
    spinner,      \* the status indicator: whether it spins, and its message
    updates,      \* the number of calls of rustupUpdate so far
    upc,          \* the await the current rustupUpdate is suspended at
    uresult,      \* the promise rustupUpdate returned
    ulog          \* the calls rustupUpdate made on its collaborators, in order

vars == <<toolchains, comps, run, pc, step, hasNightly, hasRls, result, err,
          log, stdout, probe, spinner, updates, upc, uresult, ulog>>
world == <<toolchains, comps>>
check == <<stdout, probe>>
boot == <<run, pc, step, hasNightly, hasRls, result, err, log>>
upd == <<updates, upc, uresult, ulog>>

\* ----------------------------------------------------------- log events
Exec(command) == <<"exec", command>>
Ok(command) == <<"ok", command>>
Fail(command) == <<"fail", command>>
ShowInformationMessage(m) == <<"showInformationMessage", m>>
Clicked(v) == <<"clicked", <<v>>>>
ShowErrorMessage(m) == <<"showErrorMessage", m>>
StartSpinner(m) == <<"startSpinner", m>>
StopSpinner(m) == <<"stopSpinner", m>>
SpawnRls == <<"spawn", CmdRunRls>>
Reject(e) == <<"reject", e.message>>

\* ------------------------------------------------------------ the spinner
\* One status indicator for the whole extension: startSpinner makes it spin
\* with a message, stopSpinner stops it and leaves a message.
SpinnerIdle == [active |-> FALSE, msg |-> <<>>]
SpinnerAfter(sp, evs) ==
    LET at == {i \in DOMAIN evs : evs[i][1] \in {"startSpinner", "stopSpinner"}} IN
    IF at = {} THEN sp
    ELSE LET i == CHOOSE j \in at : \A k \in at : k <= j IN
         [active |-> evs[i][1] = "startSpinner", msg |-> evs[i][2]]

\* ------------------------------------------------- the toolchain manager
\* rustup toolchain list: one line per installed toolchain, one of them
\* marked as the default.
ToolchainLine(t, dflt) ==
    (IF t = "nightly" THEN S_nightly ELSE S_stable) \o S_target
        \o (IF t = dflt THEN S_default ELSE <<>>) \o NL
ToolchainListOutputs(ts) ==
    IF ts = {} THEN {S_none \o NL}
    ELSE {(IF "stable" \in ts THEN ToolchainLine("stable", d) ELSE <<>>)
            \o (IF "nightly" \in ts THEN ToolchainLine("nightly", d) ELSE <<>>) :
          d \in ts}

\* rustup component list --toolchain nightly: one line per component of the
\* toolchain, annotated when it is installed.
ComponentLine(name, tgt, note) == name \o tgt \o note \o NL
ComponentListOutput(cs) ==
    ComponentLine(S_cargo, S_target, S_default)
      \o ComponentLine(S_rls, S_target, IF "rls" \in cs THEN S_installed ELSE <<>>)
      \o ComponentLine(S_rust_analysis, S_target,
                       IF "rust-analysis" \in cs THEN S_installed ELSE <<>>)
      \o ComponentLine(S_rust_src, <<>>, IF "rust-src" \in cs THEN S_installed ELSE <<>>)
      \o ComponentLine(S_rust_std, S_target, S_default)

\* rustup component remove: the toolchain manager's command that takes a
\* component away again, and the components a sequence of calls removes.
CmdComponentRemove(component) ==
    <<"rustup", "component", "remove", component, "--toolchain", "nightly">>
Removed(evs) ==
    {c \in Components : \E i \in DOMAIN evs : evs[i] = Exec(CmdComponentRemove(c))}

\* readiness = toolchain present and all required components present under it
Readiness == "nightly" \in toolchains /\ Components \subseteq comps

\* ------------------------------------------------------------- verifiers
\* hasNightlyToolchain, the try block: stdout.indexOf('nightly') > -1
HasNightlyToolchain_Positive(out) == IndexOf(out, S_nightly) > 0
HasNightlyToolchain(out) == IndexOf(out, S_nightly) > -1

\* The state annotations the component patterns accept: " (default)" and
\* " (installed)", each with its leading space.
Annotations_DefaultOnly == {S_default}
Annotations == {S_default, S_installed}

\* hasRlsComponents, the try block: false when the search for any of the
\* three patterns returns -1.
HasRlsComponents_NoSrc(out) ==
    IF \/ SearchLine(out, S_rls, Annotations) = -1
       \/ SearchLine(out, S_rust_analysis, Annotations) = -1
    THEN FALSE
    ELSE TRUE
HasRlsComponents(out) ==
    IF \/ SearchLine(out, S_rls, Annotations) = -1
       \/ SearchLine(out, S_rust_analysis, Annotations) = -1
       \/ SearchLine(out, S_rust_src, Annotations) = -1
    THEN FALSE
    ELSE TRUE

Str(b) == IF b THEN "true" ELSE "false"

\* ------------------------------------------------ steps of the promise
\* What the code does between two awaits: the calls it makes (ev), the await
\* it stops at (pc) and what becomes of the promise (result, err).
Continue(at, evs) == [pc |-> at, ev |-> evs, result |-> "pending", err |-> NoError]
Throw(e, evs) ==
    [pc |-> "done", ev |-> evs \o <<Reject(e)>>, result |-> "rejected", err |-> e]
Then(evs, s) == [s EXCEPT !.ev = evs \o @]

\* runRlsViaRustup's last then: child_process.spawn('rustup', ['run', 'nightly', 'rls'])
RunRls == [pc |-> "done", ev |-> <<SpawnRls>>, result |-> "resolved", err |-> NoError]

\* checkForRls up to its first await: hasRlsComponents runs the list command.
CheckForRlsBegin == Continue("componentList", <<Exec(CmdComponentList)>>)

\* checkForNightly once hasNightlyToolchain has returned h.
CheckForNightly_Skip(h) == CheckForRlsBegin
CheckForNightly(h) ==
    IF h THEN CheckForRlsBegin
    ELSE Continue("nightlyPrompt", <<ShowInformationMessage(MsgNightlyPrompt)>>)

\* hasNightlyToolchain, the catch block.
HasNightlyToolchainCatch_Absent(e) ==
    Continue("nightlyPrompt", <<ShowErrorMessage(MsgRustupNotAvailable),
                                ShowInformationMessage(MsgNightlyPrompt)>>)
HasNightlyToolchainCatch(e) == Throw(e, <<ShowErrorMessage(MsgRustupNotAvailable)>>)

\* checkForNightly once the prompt has returned clicked.
NightlyClicked_NoThrow(clicked) ==
    IF clicked = "Yes"
    THEN Continue("toolchainInstall",
                  <<StartSpinner(MsgInstallingNightly), Exec(CmdToolchainInstall)>>)
    ELSE CheckForRlsBegin
NightlyClicked_Hang(clicked) ==
    IF clicked = "Yes"
    THEN Continue("toolchainInstall",
                  <<StartSpinner(MsgInstallingNightly), Exec(CmdToolchainInstall)>>)
    ELSE Continue("declined", <<>>)
NightlyClicked(clicked) ==
    IF clicked = "Yes"
    THEN Continue("toolchainInstall",
                  <<StartSpinner(MsgInstallingNightly), Exec(CmdToolchainInstall)>>)
    ELSE Throw(GenericError, <<>>)

\* tryToInstallNightlyToolchain, the rest of the try block, then checkForRls.
TryToInstallNightlyToolchainDone_Launch == Then(<<StopSpinner(MsgNightlyInstalled)>>, RunRls)
TryToInstallNightlyToolchainDone ==
    Then(<<StopSpinner(MsgNightlyInstalled)>>, CheckForRlsBegin)

\* tryToInstallNightlyToolchain, the catch block.
TryToInstallNightlyToolchainCatch_Swallow(e) ==
    Then(<<ShowErrorMessage(MsgNightlyFailed), StopSpinner(MsgNightlyFailed)>>, CheckForRlsBegin)
TryToInstallNightlyToolchainCatch(e) ==
    Throw(e, <<ShowErrorMessage(MsgNightlyFailed), StopSpinner(MsgNightlyFailed)>>)

\* checkForRls once hasRlsComponents has returned h.
CheckForRls_Always(h) == RunRls
CheckForRls(h) ==
    IF h THEN RunRls
    ELSE Continue("rlsPrompt", <<ShowInformationMessage(MsgRlsPrompt)>>)

\* hasRlsComponents, the catch block.
HasRlsComponentsCatch_Silent(e) == Throw(e, <<>>)
HasRlsComponentsCatch(e) == Throw(e, <<ShowErrorMessage(MsgRustupError)>>)

\* checkForRls once the prompt has returned clicked; installRls up to the
\* await of its first block.
RlsClicked_NotUndefined(clicked) ==
    IF clicked # "undefined"
    THEN Continue("componentAdd",
                  <<StartSpinner(MsgInstallingRls), Exec(CmdComponentAdd(InstallOrder[1]))>>)
    ELSE Throw(GenericError, <<>>)
RlsClicked(clicked) ==
    IF clicked = "Yes"
    THEN Continue("componentAdd",
                  <<StartSpinner(MsgInstallingRls), Exec(CmdComponentAdd(InstallOrder[1]))>>)
    ELSE Throw(GenericError, <<>>)

\* installRls after tryFn returned null in block i: the next block, or the
\* end of installRls and the spawn.
InstallRlsNext_Reverify(i) ==
    IF i < Len(InstallOrder)
    THEN Continue("componentAdd", <<Exec(CmdComponentAdd(InstallOrder[i + 1]))>>)
    ELSE Then(<<StopSpinner(MsgRlsInstalled)>>, CheckForRlsBegin)
InstallRlsNext_Short(i) ==
    IF i < 2
    THEN Continue("componentAdd", <<Exec(CmdComponentAdd(InstallOrder[i + 1]))>>)
    ELSE Then(<<StopSpinner(MsgRlsInstalled)>>, RunRls)
InstallRlsNext(i) ==
    IF i < Len(InstallOrder)
    THEN Continue("componentAdd", <<Exec(CmdComponentAdd(InstallOrder[i + 1]))>>)
    ELSE Then(<<StopSpinner(MsgRlsInstalled)>>, RunRls)

\* installRls after tryFn caught an error in block i.
InstallRlsFailed_Rollback(i) ==
    Throw(InstallError(InstallOrder[i]),
          <<ShowErrorMessage(MsgComponentFailed(InstallOrder[i]))>>
            \o [k \in 1..(i - 1) |-> Exec(CmdComponentRemove(InstallOrder[k]))]
            \o <<StopSpinner(MsgRlsFailed)>>)
InstallRlsFailed_NoStop(i) ==
    Throw(InstallError(InstallOrder[i]),
          <<ShowErrorMessage(MsgComponentFailed(InstallOrder[i]))>>)
InstallRlsFailed(i) ==
    Throw(InstallError(InstallOrder[i]),
          <<ShowErrorMessage(MsgComponentFailed(InstallOrder[i])), StopSpinner(MsgRlsFailed)>>)

\* ---------------------------------------------------------------- actions
Go(s) ==
    /\ pc' = s.pc
    /\ log' = log \o s.ev
    /\ result' = s.result
    /\ err' = s.err
    /\ step' = IF s.pc = "componentAdd" THEN step + 1 ELSE 0
    /\ spinner' = SpinnerAfter(spinner, s.ev)

Init ==
    /\ toolchains \in SUBSET {"stable", "nightly"}
    /\ comps \in SUBSET Components
    /\ "nightly" \notin toolchains => comps = {}
    /\ run = 0
    /\ pc = "idle"
    /\ step = 0
    /\ hasNightly = "unset"
    /\ hasRls = "unset"
    /\ result = "none"
    /\ err = NoError
    /\ log = <<>>
    /\ stdout = <<>>
    /\ probe = "unset"
    /\ spinner = SpinnerIdle
    /\ updates = 0
    /\ upc = "idle"
    /\ uresult = "none"
    /\ ulog = <<>>

\* A call of runRlsViaRustup, up to the await in hasNightlyToolchain.
StartRun ==
    /\ pc \in {"idle", "done"}
    /\ run < MaxRuns
    /\ run' = run + 1
    /\ pc' = "toolchainList"
    /\ step' = 0
    /\ hasNightly' = "unset"
    /\ hasRls' = "unset"
    /\ result' = "pending"
    /\ err' = NoError
    /\ log' = <<Exec(CmdToolchainList)>>
    /\ UNCHANGED <<world, check, spinner, upd>>

ToolchainListReturns ==
    /\ pc = "toolchainList"
    /\ \E out \in ToolchainListOutputs(toolchains) :
         /\ hasNightly' = Str(HasNightlyToolchain(out))
         /\ Go(Then(<<Ok(CmdToolchainList)>>, CheckForNightly(HasNightlyToolchain(out))))
    /\ UNCHANGED <<world, run, hasRls, check, upd>>

ToolchainListFails ==
    /\ pc = "toolchainList"
    /\ \E e \in ExecErrors(CmdToolchainList) :
         Go(Then(<<Fail(CmdToolchainList)>>, HasNightlyToolchainCatch(e)))
    /\ UNCHANGED <<world, run, hasNightly, hasRls, check, upd>>

NightlyPromptReturns ==
    /\ pc = "nightlyPrompt"
    /\ \E clicked \in Clicks : Go(Then(<<Clicked(clicked)>>, NightlyClicked(clicked)))
    /\ UNCHANGED <<world, run, hasNightly, hasRls, check, upd>>

ToolchainInstallReturns ==
    /\ pc = "toolchainInstall"
    /\ toolchains' = toolchains \cup {"nightly"}
    /\ Go(Then(<<Ok(CmdToolchainInstall)>>, TryToInstallNightlyToolchainDone))
    /\ UNCHANGED <<comps, run, hasNightly, hasRls, check, upd>>

ToolchainInstallFails ==
    /\ pc = "toolchainInstall"
    /\ \E e \in ExecErrors(CmdToolchainInstall) :
         Go(Then(<<Fail(CmdToolchainInstall)>>, TryToInstallNightlyToolchainCatch(e)))
    /\ UNCHANGED <<world, run, hasNightly, hasRls, check, upd>>

\* rustup lists the components of an installed toolchain only.
ComponentListReturns ==
    /\ pc = "componentList"
    /\ "nightly" \in toolchains
    /\ \E out \in {ComponentListOutput(comps)} :
         /\ hasRls' = Str(HasRlsComponents(out))
         /\ Go(Then(<<Ok(CmdComponentList)>>, CheckForRls(HasRlsComponents(out))))
    /\ UNCHANGED <<world, run, hasNightly, check, upd>>

ComponentListFails ==
    /\ pc = "componentList"
    /\ \E e \in ExecErrors(CmdComponentList) :
         Go(Then(<<Fail(CmdComponentList)>>, HasRlsComponentsCatch(e)))
    /\ UNCHANGED <<world, run, hasNightly, hasRls, check, upd>>

RlsPromptReturns ==
    /\ pc = "rlsPrompt"
    /\ \E clicked \in Clicks : Go(Then(<<Clicked(clicked)>>, RlsClicked(clicked)))
    /\ UNCHANGED <<world, run, hasNightly, hasRls, check, upd>>

\* tryFn's command succeeds: the component is added, tryFn returns null.
ComponentAddReturns ==
    /\ pc = "componentAdd"
    /\ "nightly" \in toolchains
    /\ comps' = comps \cup {InstallOrder[step]}
    /\ Go(Then(<<Ok(CmdComponentAdd(InstallOrder[step]))>>, InstallRlsNext(step)))
    /\ UNCHANGED <<toolchains, run, hasNightly, hasRls, check, upd>>

\* tryFn's command fails: tryFn returns the error, the block throws it.
ComponentAddFails ==
    /\ pc = "componentAdd"
    /\ Go(Then(<<Fail(CmdComponentAdd(InstallOrder[step]))>>, InstallRlsFailed(step)))
    /\ comps' = comps \ Removed(InstallRlsFailed(step).ev)
    /\ UNCHANGED <<toolchains, run, hasNightly, hasRls, check, upd>>

\* ---------------------------------------------------------- rustupUpdate
S_unchanged == <<"u", "n", "c", "h", "a", "n", "g", "e", "d">>
S_updated == <<"u", "p", "d", "a", "t", "e", "d">>
CmdUpdate == <<"rustup", "update">>
MsgUpdating == <<"Updating RLS...">>
MsgUpToDate == <<"Up to date.">>
MsgRestart == <<"Up to date. Restart extension for changes to take effect.">>
MsgUpdateError == <<"An error occurred whilst trying to update.">>

\* rustup update: one line per installed toolchain, saying whether it changed.
UpdateLine(name, what) == name \o S_target \o <<" ">> \o what \o NL
UpdateOutputs ==
    {UpdateLine(S_nightly, S_unchanged),
     UpdateLine(S_nightly, S_updated),
     UpdateLine(S_stable, S_unchanged) \o UpdateLine(S_nightly, S_updated),
     UpdateLine(S_stable, S_updated) \o UpdateLine(S_nightly, S_updated)}

Stdout(out) == <<"stdout", out>>

\* rustupUpdate up to its await.
RustupUpdateBegin == Continue("updating", <<StartSpinner(MsgUpdating), Exec(CmdUpdate)>>)

\* rustupUpdate, the rest of the try block.
RustupUpdateDone(out) ==
    [pc |-> "done",
     ev |-> <<StopSpinner(IF IndexOf(out, S_unchanged) > -1 THEN MsgUpToDate ELSE MsgRestart)>>,
     result |-> "resolved",
     err |-> NoError]

\* rustupUpdate, the catch block: the error is logged and not thrown.
RustupUpdateCatch_Rethrow(e) == Throw(e, <<StopSpinner(MsgUpdateError)>>)
RustupUpdateCatch(e) ==
    [pc |-> "done", ev |-> <<StopSpinner(MsgUpdateError)>>, result |-> "resolved",
     err |-> NoError]

GoUpdate(s) ==
    /\ upc' = s.pc
    /\ ulog' = ulog \o s.ev
    /\ uresult' = s.result
    /\ spinner' = SpinnerAfter(spinner, s.ev)

\* A call of rustupUpdate (the rls.update command, or the update on startup),
\* up to the await of the update command.
UpdateStart ==
    /\ upc \in {"idle", "done"}
    /\ updates < MaxUpdates
    /\ updates' = updates + 1
    /\ upc' = RustupUpdateBegin.pc
    /\ ulog' = RustupUpdateBegin.ev
    /\ uresult' = RustupUpdateBegin.result
    /\ spinner' = SpinnerAfter(spinner, RustupUpdateBegin.ev)
    /\ UNCHANGED <<world, boot, check>>

UpdateReturns ==
    /\ upc = "updating"
    /\ \E out \in UpdateOutputs :
         GoUpdate(Then(<<Ok(CmdUpdate), Stdout(out)>>, RustupUpdateDone(out)))
    /\ UNCHANGED <<world, boot, check, updates>>

UpdateFails ==
    /\ upc = "updating"
    /\ \E e \in ExecErrors(CmdUpdate) :
         GoUpdate(Then(<<Fail(CmdUpdate)>>, RustupUpdateCatch(e)))
    /\ UNCHANGED <<world, boot, check, updates>>

Next ==
    \/ StartRun
    \/ ToolchainListReturns
    \/ ToolchainListFails
    \/ NightlyPromptReturns
    \/ ToolchainInstallReturns
    \/ ToolchainInstallFails
    \/ ComponentListReturns
    \/ ComponentListFails
    \/ RlsPromptReturns
    \/ ComponentAddReturns
    \/ ComponentAddFails
    \/ UpdateStart
    \/ UpdateReturns
    \/ UpdateFails

Spec == Init /\ [][Next]_vars

\* Every external command and every prompt eventually returns: a run that
\* waits at an await is eventually resumed.
Resume ==
    \/ ToolchainListReturns
    \/ ToolchainListFails
    \/ NightlyPromptReturns
    \/ ToolchainInstallReturns
    \/ ToolchainInstallFails
    \/ ComponentListReturns
    \/ ComponentListFails
    \/ RlsPromptReturns
    \/ ComponentAddReturns
    \/ ComponentAddFails

SpecLive == Init /\ [][Next]_vars /\ WF_vars(Resume)

\* ------------------------------------------------- the component verifier
\* on its own: hasRlsComponents applied to component-list outputs of up to
\* MaxLines lines.
S_available == <<" ", "(", "a", "v", "a", "i", "l", "a", "b", "l", "e", ")">>
S_defaultNoSp == <<"(", "d", "e", "f", "a", "u", "l", "t", ")">>
S_installedNoSp == <<"(", "i", "n", "s", "t", "a", "l", "l", "e", "d", ")">>

ListLines ==
    { S_rls \o S_target \o S_installed,
      S_rls \o S_default,
      S_rls \o S_target,
      S_rls \o S_installedNoSp,
      <<" ">> \o S_rls \o S_installed,
      S_rust_analysis \o S_target \o S_installed,
      S_rust_analysis \o S_available,
      S_rust_analysis \o S_target,
      S_rust_src \o S_installed,
      S_rust_src \o S_installed \o <<"\r">>,
      S_rust_src \o S_installed \o <<" ">>,
      S_rust_src \o S_defaultNoSp }

RECURSIVE Join(_)
Join(ls) ==
    IF ls = <<>> THEN <<>>
    ELSE IF Len(ls) = 1 THEN ls[1]
    ELSE ls[1] \o NL \o Join(Tail(ls))

ListOutputs == UNION {{Join(ls) : ls \in [1..n -> ListLines]} : n \in 0..MaxLines}

InitVerifier ==
    /\ toolchains = {"nightly"}
    /\ comps = {}
    /\ run = 0
    /\ pc = "idle"
    /\ step = 0
    /\ hasNightly = "unset"
    /\ hasRls = "unset"
    /\ result = "none"
    /\ err = NoError
    /\ log = <<>>
    /\ stdout \in ListOutputs
    /\ probe = "unset"
    /\ spinner = SpinnerIdle
    /\ updates = 0
    /\ upc = "idle"
    /\ uresult = "none"
    /\ ulog = <<>>

Verify ==
    /\ probe = "unset"
    /\ probe' = Str(HasRlsComponents(stdout))
    /\ UNCHANGED <<world, boot, stdout, spinner, upd>>

NextVerifier == Verify

SpecVerifier == InitVerifier /\ [][NextVerifier]_vars

\* ------------------------------------------------- the toolchain verifier
\* on its own: hasNightlyToolchain's test applied to toolchain-list outputs of
\* up to MaxLines lines.
S_dated == <<"-", "2", "0", "1", "7", "-", "0", "8", "-", "3", "1">>

ToolchainLines ==
    { S_stable \o S_target,
      S_stable \o S_target \o S_default,
      S_nightly \o S_target,
      S_nightly \o S_target \o S_default,
      S_nightly \o S_dated \o S_target,
      <<"N">> \o Tail(S_nightly) \o S_target,
      SubSeq(S_nightly, 1, 5),
      SubSeq(S_nightly, 6, 7) \o S_target,
      S_none }

ToolchainOutputs == UNION {{Join(ls) : ls \in [1..n -> ToolchainLines]} : n \in 0..MaxLines}

InitToolchainVerifier ==
    /\ toolchains = {}
    /\ comps = {}
    /\ run = 0
    /\ pc = "idle"
    /\ step = 0
    /\ hasNightly = "unset"
    /\ hasRls = "unset"
    /\ result = "none"
    /\ err = NoError
    /\ log = <<>>
    /\ stdout \in ToolchainOutputs
    /\ probe = "unset"
    /\ spinner = SpinnerIdle
    /\ updates = 0
    /\ upc = "idle"
    /\ uresult = "none"
    /\ ulog = <<>>

VerifyToolchain ==
    /\ probe = "unset"
    /\ probe' = Str(HasNightlyToolchain(stdout))
    /\ UNCHANGED <<world, boot, stdout, spinner, upd>>

NextToolchainVerifier == VerifyToolchain

SpecToolchainVerifier == InitToolchainVerifier /\ [][NextToolchainVerifier]_vars

\* ====================================================================
\* Properties
\* ====================================================================
Has(e) == \E i \in DOMAIN log : log[i] = e
Count(e) == Cardinality({i \in DOMAIN log : log[i] = e})
Kinds(ks) == {i \in DOMAIN log : log[i][1] \in ks}
Declined == \E i \in DOMAIN log : log[i][1] = "clicked" /\ log[i] # Clicked("Yes")
InstallCmds == {CmdToolchainInstall} \cup {CmdComponentAdd(c) : c \in Components}
ProbeCmds == {CmdToolchainList, CmdComponentList}

\* The terminal state of the attempt, in the words of the state machine.
Outcome ==
    CASE result = "resolved" -> "Ready"
      [] result = "rejected" /\ (\E c \in ProbeCmds : Has(Fail(c))) -> "ProbeBroken"
      [] result = "rejected" -> "Aborted"
      [] OTHER -> "Running"

\* C1: the dependent process is spawned only when readiness holds (nightly
\* installed and all three components installed under it), never in a run
\* with a failed command or a declined prompt, at most once per run, and the
\* promise resolves exactly when it was spawned.
C1_LaunchOnlyWhenReady ==
    /\ Has(SpawnRls) => Readiness
    /\ Has(SpawnRls) => Kinds({"fail"}) = {} /\ ~Declined
    /\ Count(SpawnRls) <= 1
    /\ Has(SpawnRls) <=> result = "resolved"

\* C1 witness: a run that installed the toolchain and the components, then
\* spawned the RLS.
C1_Witness ==
    /\ Has(SpawnRls)
    /\ Has(Ok(CmdToolchainInstall))
    /\ Has(Ok(CmdComponentAdd("rls")))

\* C2 as stated: the component list command runs only in a run whose toolchain
\* verification found nightly present.
C2_Original == Has(Exec(CmdComponentList)) => hasNightly = "true"

\* C2 amended: the component list command runs only after the toolchain list
\* command of the run succeeded, and only if that probe found nightly or a
\* toolchain install of the run succeeded before it.
C2_ComponentsAfterToolchain ==
    \A j \in DOMAIN log :
        log[j] = Exec(CmdComponentList) =>
            /\ \E i \in 1..(j - 1) : log[i] = Ok(CmdToolchainList)
            /\ \/ hasNightly = "true"
               \/ \E k \in 1..(j - 1) : log[k] = Ok(CmdToolchainInstall)
            /\ "nightly" \in toolchains

\* C2 witness: the component list command ran after a toolchain install.
C2_Witness ==
    /\ Has(Exec(CmdComponentList))
    /\ hasNightly = "false"
    /\ Has(Ok(CmdToolchainInstall))

\* C3: after a failed probe command the run is rejected with the command
\* runner's error (ProbeBroken), the probe's local is never set to absent, and
\* nothing follows the failure but the error message and the rejection: no
\* prompt, no command, no spawn.
C3_ProbeFailureFatal ==
    \A i \in DOMAIN log : \A c \in ProbeCmds :
        log[i] = Fail(c) =>
            /\ result = "rejected"
            /\ Outcome = "ProbeBroken"
            /\ err \in ExecErrors(c)
            /\ (c = CmdToolchainList => hasNightly = "unset")
            /\ (c = CmdComponentList => hasRls = "unset")
            /\ \A k \in (i + 1)..Len(log) :
                   log[k][1] \notin {"exec", "showInformationMessage", "clicked", "spawn"}

\* C3 witness: the component list command failed after a toolchain install.
C3_Witness ==
    /\ Has(Fail(CmdComponentList))
    /\ Has(Ok(CmdToolchainInstall))

NightlyDeclined ==
    \E i \in DOMAIN log :
        /\ i > 1
        /\ log[i - 1] = ShowInformationMessage(MsgNightlyPrompt)
        /\ log[i][1] = "clicked"
        /\ log[i] # Clicked("Yes")

\* C4: when the toolchain prompt is declined the run is rejected with a
\* generic error (Aborted) and has run no component list command, no install
\* command and no spawn.
C4_DeclineToolchain ==
    NightlyDeclined =>
        /\ result = "rejected"
        /\ Outcome = "Aborted"
        /\ err = GenericError
        /\ ~Has(Exec(CmdComponentList))
        /\ \A c \in InstallCmds : ~Has(Exec(c))
        /\ ~Has(SpawnRls)

\* C4 witness: the toolchain prompt was dismissed.
C4_Witness == NightlyDeclined /\ Has(Clicked("undefined"))

\* The prompt that offers the install a command belongs to.
PromptFor(c) == IF c = CmdToolchainInstall THEN MsgNightlyPrompt ELSE MsgRlsPrompt

\* C5: the toolchain prompt is shown exactly when the toolchain probe returned
\* false and the RLS prompt exactly when the component probe returned false;
\* an install command runs only after its prompt returned 'Yes'; after any
\* other answer the run is Aborted with a generic error and runs no command.
C5_ConsentGatesInstall ==
    /\ Has(ShowInformationMessage(MsgNightlyPrompt)) <=> hasNightly = "false"
    /\ Has(ShowInformationMessage(MsgRlsPrompt)) <=> hasRls = "false"
    /\ \A i \in Kinds({"showInformationMessage"}) :
           log[i][2] \in {MsgNightlyPrompt, MsgRlsPrompt}
    /\ \A j \in DOMAIN log : \A c \in InstallCmds :
           log[j] = Exec(c) =>
               \E i \in 2..(j - 1) :
                   /\ log[i - 1] = ShowInformationMessage(PromptFor(c))
                   /\ log[i] = Clicked("Yes")
    /\ \A i \in Kinds({"clicked"}) :
           log[i] # Clicked("Yes") =>
               /\ Outcome = "Aborted"
               /\ err = GenericError
               /\ \A k \in (i + 1)..Len(log) : log[k][1] \notin {"exec", "spawn"}

\* C5 witness: the RLS prompt was answered with something other than 'Yes'
\* after the toolchain prompt was accepted.
C5_Witness ==
    /\ Has(Clicked("No"))
    /\ Has(Clicked("Yes"))
    /\ Has(ShowInformationMessage(MsgRlsPrompt))

\* The add commands the run has issued, in order.
RECURSIVE AddsOf(_)
AddsOf(l) ==
    IF l = <<>> THEN <<>>
    ELSE IF Head(l)[1] = "exec" /\ Head(l)[2] \in {CmdComponentAdd(c) : c \in Components}
         THEN <<Head(l)[2][4]>> \o AddsOf(Tail(l))
         ELSE AddsOf(Tail(l))

\* C6: the add commands of a run are a prefix of rust-analysis, rust-src, rls;
\* each but the first is issued right after the previous one succeeded; after
\* a failed add command no command is issued and the run is rejected.
C6_InstallOrder ==
    /\ \E n \in 0..3 : AddsOf(log) = SubSeq(<<"rust-analysis", "rust-src", "rls">>, 1, n)
    /\ \A j \in DOMAIN log : \A c \in {"rust-src", "rls"} :
           log[j] = Exec(CmdComponentAdd(c)) =>
               j > 1 /\ log[j - 1][1] = "ok" /\ log[j - 1][2][3] = "add"
    /\ \A i \in DOMAIN log : \A c \in Components :
           log[i] = Fail(CmdComponentAdd(c)) =>
               /\ result = "rejected"
               /\ err.name = "Error"
               /\ \A k \in (i + 1)..Len(log) : log[k][1] # "exec"

\* C6 witness: rust-analysis was added and the add of rust-src failed.
C6_Witness ==
    /\ Has(Ok(CmdComponentAdd("rust-analysis")))
    /\ Has(Fail(CmdComponentAdd("rust-src")))

Names(e) == {e.message[k] : k \in DOMAIN e.message}

\* C8 as stated: the error of a failed toolchain install names the toolchain,
\* the error of a failed component add names exactly that component.
C8_Original ==
    /\ Has(Fail(CmdToolchainInstall)) => Names(err) \cap {"toolchain", "nightly"} # {}
    /\ \A c \in Components :
           Has(Fail(CmdComponentAdd(c))) => Names(err) \cap Components = {c}

\* C8 amended: the error of a failed component add is a new error naming
\* exactly the component whose step failed, the only failed step of the run;
\* the error of a failed toolchain install is the command runner's error for
\* that command, thrown on as it is.
C8_InstallErrorSubject ==
    /\ \A c \in Components :
           Has(Fail(CmdComponentAdd(c))) =>
               /\ result = "rejected"
               /\ err = [name |-> "Error", message |-> <<"installing ", c, " failed">>]
               /\ \A i \in Kinds({"fail"}) : log[i] = Fail(CmdComponentAdd(c))
    /\ Has(Fail(CmdToolchainInstall)) =>
           /\ result = "rejected"
           /\ err \in ExecErrors(CmdToolchainInstall)

\* C8 witness: the add of rust-src failed after rust-analysis was added.
C8_Witness ==
    /\ result = "rejected"
    /\ Has(Fail(CmdComponentAdd("rust-src")))
    /\ Has(Ok(CmdComponentAdd("rust-analysis")))

ProbesThenSpawn ==
    <<Exec(CmdToolchainList), Ok(CmdToolchainList),
      Exec(CmdComponentList), Ok(CmdComponentList), SpawnRls>>

\* C9: in any run, the second as the first, that starts with nightly and the
\* three components installed, no prompt is shown and no install command is
\* issued, and when no command fails the run makes exactly the two probes,
\* toolchain list then component list, and spawns.
C9_Idempotent ==
    (run >= 1 /\ Readiness /\ \A c \in InstallCmds : ~Has(Ok(c))) =>
        /\ Kinds({"showInformationMessage", "clicked"}) = {}
        /\ \A c \in InstallCmds : ~Has(Exec(c))
        /\ (result # "pending" /\ Kinds({"fail"}) = {}) =>
               result = "resolved" /\ log = ProbesThenSpawn

\* C9 witness: the second run, after a first run, probed twice and spawned.
C9_Witness == run = 2 /\ result = "resolved" /\ log = ProbesThenSpawn

\* The lines of an output: what lies between its line terminators.
RECURSIVE SplitLines(_)
SplitLines(s) ==
    LET ends == {i \in 1..Len(s) : s[i] \in {"\n", "\r"}} IN
    IF ends = {} THEN <<s>>
    ELSE LET i == CHOOSE e \in ends : \A k \in ends : e <= k IN
         <<SubSeq(s, 1, i - 1)>> \o SplitLines(SubSeq(s, i + 1, Len(s)))

\* Some line of s starts with name and ends with one of sufs, without overlap.
SomeLine(s, name, sufs) ==
    \E i \in DOMAIN SplitLines(s) : \E suf \in sufs :
        LET l == SplitLines(s)[i] IN
        /\ Len(l) >= Len(name) + Len(suf)
        /\ SubSeq(l, 1, Len(name)) = name
        /\ SubSeq(l, Len(l) - Len(suf) + 1, Len(l)) = suf

\* C10 as stated: the probe returns present exactly when each of the three
\* names has a line matching ^<name>.*\((default|installed)\)$.
C10_Original ==
    probe # "unset" =>
        (probe = "true" <=>
            \A name \in {S_rls, S_rust_analysis, S_rust_src} :
                SomeLine(stdout, name, {S_defaultNoSp, S_installedNoSp}))

\* C10 amended: the probe returns present exactly when each of the three
\* names has a line matching ^<name>.* \((default|installed)\)$, with a space
\* before the parenthesis; otherwise it returns absent.
C10_ProbePresentIff ==
    probe # "unset" =>
        (probe = "true" <=>
            \A name \in {S_rls, S_rust_analysis, S_rust_src} :
                SomeLine(stdout, name, {S_default, S_installed}))

\* C10 witness: an output of three lines on which the probe returned present.
C10_Witness == probe = "true" /\ Len(SplitLines(stdout)) = 3

\* s contains sub: sub stands, character by character, somewhere in s.
ContainsText(s, sub) ==
    \E i \in 1..Len(s) :
        /\ i + Len(sub) - 1 <= Len(s)
        /\ \A k \in 1..Len(sub) : s[i + k - 1] = sub[k]

\* C11: on an output of the toolchain list command the toolchain probe
\* returns present exactly when the output contains the text nightly.
C11_ToolchainPresentIff ==
    probe # "unset" =>
        (probe = "true" <=>
            ContainsText(stdout, <<"n", "i", "g", "h", "t", "l", "y">>))

\* C11 witness: the probe returned present on an output that begins with the
\* nightly line.
C11_Witness ==
    /\ probe = "true"
    /\ Len(stdout) >= 7
    /\ SubSeq(stdout, 1, 7) = <<"n", "i", "g", "h", "t", "l", "y">>

UpdateDone == upc = "done"
LastStop(m) == ulog # <<>> /\ ulog[Len(ulog)] = StopSpinner(m)

\* C12: rustupUpdate never rejects; when the update command fails it resolves
\* after stopping the indicator with the error status; when the command
\* succeeds with an output that contains unchanged the status is 'Up to date.'.
C12_UpdateSwallowsErrors ==
    /\ uresult # "rejected"
    /\ \A i \in DOMAIN ulog : ulog[i][1] # "reject"
    /\ (\E i \in DOMAIN ulog : ulog[i] = Fail(CmdUpdate)) =>
           /\ uresult = "resolved"
           /\ LastStop(<<"An error occurred whilst trying to update.">>)
    /\ \A i \in DOMAIN ulog :
           (ulog[i][1] = "stdout" /\ ContainsText(ulog[i][2], <<"u", "n", "c", "h", "a", "n", "g", "e", "d">>)) =>
               /\ uresult = "resolved"
               /\ LastStop(<<"Up to date.">>)

\* C12 witness: the update command failed and rustupUpdate has returned.
C12_Witness == UpdateDone /\ \E i \in DOMAIN ulog : ulog[i] = Fail(CmdUpdate)

\* The commands runRlsViaRustup may run: two lists, one install, three adds.
BootstrapCmds ==
    { <<"rustup", "toolchain", "list">>,
      <<"rustup", "toolchain", "install", "nightly">>,
      <<"rustup", "component", "list", "--toolchain", "nightly">>,
      <<"rustup", "component", "add", "rust-analysis", "--toolchain", "nightly">>,
      <<"rustup", "component", "add", "rust-src", "--toolchain", "nightly">>,
      <<"rustup", "component", "add", "rls", "--toolchain", "nightly">> }

AddFailsNow ==
    /\ Kinds({"fail"}) = {}
    /\ \E c \in Components : \E i \in DOMAIN log' : log'[i] = Fail(CmdComponentAdd(c))

\* C13: the run issues no command but its lists, installs and adds, so none
\* that removes anything; every component whose add command succeeded in the
\* run is installed from then on, also after a later add failed; and the
\* step in which an add fails leaves the installed toolchains and components
\* as they were.
C13_NoRollback ==
    /\ [](\A i \in Kinds({"exec"}) : log[i][2] \in BootstrapCmds)
    /\ [](\A c \in Components : Has(Ok(CmdComponentAdd(c))) => c \in comps)
    /\ [][AddFailsNow => (comps' = comps /\ toolchains' = toolchains)]_vars

\* C13 witness: rust-analysis and rust-src were added in this run, the add of
\* rls failed, and the two are still installed.
C13_Witness ==
    /\ Has(Fail(CmdComponentAdd("rls")))
    /\ Has(Ok(CmdComponentAdd("rust-analysis")))
    /\ Has(Ok(CmdComponentAdd("rust-src")))
    /\ {"rust-analysis", "rust-src"} \subseteq comps
    /\ "rls" \notin comps

\* C14: in one run every command is run at most once and every prompt shown
\* at most once; no list command follows a successful install or add; and the
\* successful add of rls is followed by the end of installRls and the spawn.
C14_NoRetry ==
    /\ \A i \in DOMAIN log : \A j \in DOMAIN log :
           (i # j /\ log[i][1] \in {"exec", "showInformationMessage"}) => log[i] # log[j]
    /\ \A i \in DOMAIN log : \A j \in DOMAIN log :
           (i < j /\ log[i][1] = "ok" /\ log[i][2] \in InstallCmds) =>
               /\ log[j] # Exec(CmdToolchainList)
               /\ (log[i][2] # CmdToolchainInstall => log[j] # Exec(CmdComponentList))
    /\ \A i \in DOMAIN log :
           log[i] = Ok(CmdComponentAdd("rls")) =>
               SubSeq(log, i + 1, Len(log)) = <<StopSpinner(MsgRlsInstalled), SpawnRls>>

\* C14 witness: a run that installed the toolchain and the three components
\* and spawned the RLS.
C14_Witness ==
    /\ result = "resolved"
    /\ Has(Ok(CmdToolchainInstall))
    /\ Has(Ok(CmdComponentAdd("rust-src")))
    /\ log[Len(log)] = SpawnRls

RlsAccepted ==
    \E i \in DOMAIN log :
        /\ i > 1
        /\ log[i - 1] = ShowInformationMessage(MsgRlsPrompt)
        /\ log[i] = Clicked("Yes")

\* C15: once the component probe returned absent and the prompt was accepted,
\* the adds issued are rust-analysis, rust-src, rls, in this order and up to
\* the block the run has reached, whatever is installed already; a run that
\* ends without a failed add has issued all three.
C15_AllOrNothing ==
    /\ RlsAccepted <=> AddsOf(log) # <<>>
    /\ RlsAccepted => hasRls = "false"
    /\ (RlsAccepted /\ pc = "componentAdd") =>
           /\ step \in 1..3
           /\ AddsOf(log) = SubSeq(<<"rust-analysis", "rust-src", "rls">>, 1, step)
    /\ (RlsAccepted /\ result # "pending"
          /\ \A c \in Components : ~Has(Fail(CmdComponentAdd(c)))) =>
           /\ AddsOf(log) = <<"rust-analysis", "rust-src", "rls">>
           /\ \A c \in Components : Has(Ok(CmdComponentAdd(c)))
           /\ result = "resolved"

\* C15 witness: the add command for rust-analysis was issued although
\* rust-analysis is installed already.
C15_Witness ==
    /\ pc = "componentAdd"
    /\ step = 1
    /\ log[Len(log)] = Exec(CmdComponentAdd("rust-analysis"))
    /\ "rust-analysis" \in comps

Terminal == result \in {"resolved", "rejected"}

\* C16: a run that is pending ends, resolved or rejected, given that every
\* command and prompt returns; it is then in exactly one of Ready, Aborted and
\* ProbeBroken, with the RLS spawned exactly in Ready; every failed command
\* and every declined prompt ends the run rejected; and a run that has ended
\* stays as it ended until the next call.
C16_Terminates ==
    /\ (result = "pending") ~> Terminal
    /\ [](Terminal <=> pc = "done")
    /\ [](Terminal => Outcome \in {"Ready", "Aborted", "ProbeBroken"})
    /\ [](Outcome = "Ready" <=> Has(SpawnRls))
    /\ []((Kinds({"fail"}) # {} \/ Declined) => result = "rejected")
    /\ [][Terminal => (run' # run \/ UNCHANGED <<boot, world>>)]_vars

\* C16 witness: a run that ended Aborted after a failed component add.
C16_Witness == Outcome = "Aborted" /\ Has(Fail(CmdComponentAdd("rust-analysis")))

\* C17: a successful toolchain install is followed, in the same step, by the
\* component list command and nothing else but the spinner's stop; a failed
\* toolchain install ends the run Aborted with the error of the install
\* command, and the run has no component list command.
C17_AfterToolchainInstall ==
    /\ \A i \in DOMAIN log :
           log[i] = Ok(CmdToolchainInstall) =>
               /\ Len(log) >= i + 2
               /\ log[i + 1] = StopSpinner(MsgNightlyInstalled)
               /\ log[i + 2] = Exec(CmdComponentList)
    /\ Has(Fail(CmdToolchainInstall)) =>
           /\ Outcome = "Aborted"
           /\ err \in ExecErrors(CmdToolchainInstall)
           /\ ~Has(Exec(CmdComponentList))
           /\ ~Has(SpawnRls)

\* C17 witness: the run waits for the component list it issued after the
\* toolchain install succeeded.
C17_Witness == pc = "componentList" /\ Has(Ok(CmdToolchainInstall))

Within(l, ks) == {i \in DOMAIN l : l[i][1] \in ks}
NightlyStops == {StopSpinner(MsgNightlyInstalled), StopSpinner(MsgNightlyFailed)}
RlsStops == {StopSpinner(MsgRlsInstalled), StopSpinner(MsgRlsFailed)}
UpdateStops == {StopSpinner(MsgUpToDate), StopSpinner(MsgRestart), StopSpinner(MsgUpdateError)}
CountIn(l, es) == Cardinality({i \in DOMAIN l : l[i] \in es})

\* C18: tryToInstallNightlyToolchain, installRls and rustupUpdate each start
\* the spinner once, right before their first command, and stop it once, when
\* they return or throw and not before; installRls does so once for its three
\* adds; nothing else starts the spinner; and when a run has ended the
\* spinner is not spinning with a message of that run.
C18_SpinnerBalanced ==
    /\ \A i \in Within(log, {"startSpinner"}) :
           /\ log[i] \in {StartSpinner(MsgInstallingNightly), StartSpinner(MsgInstallingRls)}
           /\ i < Len(log) /\ log[i + 1][1] = "exec" /\ log[i + 1][2] \in InstallCmds
           /\ i > 1 /\ log[i - 1] = Clicked("Yes")
    /\ \A i \in Within(log, {"stopSpinner"}) : log[i] \in NightlyStops \cup RlsStops
    /\ CountIn(log, {StartSpinner(MsgInstallingNightly)})
         = (IF Has(Exec(CmdToolchainInstall)) THEN 1 ELSE 0)
    /\ CountIn(log, NightlyStops)
         = (IF Has(Ok(CmdToolchainInstall)) \/ Has(Fail(CmdToolchainInstall)) THEN 1 ELSE 0)
    /\ CountIn(log, {StartSpinner(MsgInstallingRls)}) = (IF AddsOf(log) # <<>> THEN 1 ELSE 0)
    /\ CountIn(log, RlsStops)
         = (IF \/ Has(Ok(CmdComponentAdd("rls")))
               \/ \E c \in Components : Has(Fail(CmdComponentAdd(c)))
            THEN 1 ELSE 0)
    /\ Terminal =>
           /\ Cardinality(Within(log, {"startSpinner"})) = Cardinality(Within(log, {"stopSpinner"}))
           /\ spinner.active => spinner.msg \notin {MsgInstallingNightly, MsgInstallingRls}
    /\ upc = "updating" =>
           /\ CountIn(ulog, {StartSpinner(MsgUpdating)}) = 1
           /\ Within(ulog, {"stopSpinner"}) = {}
    /\ upc = "done" =>
           /\ Within(ulog, {"startSpinner"}) = {1}
           /\ ulog[1] = StartSpinner(MsgUpdating)
           /\ Within(ulog, {"stopSpinner"}) = {Len(ulog)}
           /\ ulog[Len(ulog)] \in UpdateStops

\* C18 witness: installRls threw in its second block, after one start and one
\* stop of the spinner, in a run that had installed the toolchain as well.
C18_Witness ==
    /\ Terminal
    /\ Has(Fail(CmdComponentAdd("rust-src")))
    /\ Has(StopSpinner(MsgNightlyInstalled))
    /\ Cardinality(Within(log, {"stopSpinner"})) = 2

\* C19 as stated: while an install step of the bootstrap is in flight, the
\* indicator it started is spinning with its message, whatever rustupUpdate
\* does in between.
C19_Original ==
    /\ pc = "toolchainInstall" => spinner = [active |-> TRUE, msg |-> MsgInstallingNightly]
    /\ pc = "componentAdd" => spinner = [active |-> TRUE, msg |-> MsgInstallingRls]

====
